---- MODULE Spec2Model ----
(***************************************************************************)
(* A model of prgpt's main.go: a sequential command-line run that parses   *)
(* -pr <url>, loads ~/.config/openai/config.toml, shells out to            *)
(* `gh pr diff`, posts the diff to the chat-completion endpoint and prints *)
(* the first choice.                                                       *)
(*                                                                         *)
(* Text is modelled as a sequence of tokens: "/" is the separator token,   *)
(* every other token is a run of non-separator characters.  The empty      *)
(* string is <<>>.  A nil error is <<>>; every error message is non-empty. *)
(***************************************************************************)
EXTENDS Integers, Sequences, FiniteSets

VARIABLES
    pc,                 \* position of main
    args,               \* os.Args[1:]
    prURL,              \* main's prURL
    cfg,                \* main's cfg
    err,                \* main's err (reused by every call)
    prDiff,             \* main's prDiff
    finalConsideration, \* main's finalConsideration
    cmdOut,             \* getPRDiff's output, err := cmd.Output()
    respBody,           \* resp.Body, the response's content still to be read
    body,               \* generateFinalConsideration's body (io.ReadAll's result)
    openAIResp,         \* generateFinalConsideration's openAIResp
    stdout,             \* lines written to standard output
    ops,                \* log of operations on the outside world
    raised,             \* errors created so far in this run
    stages              \* pipeline stages entered so far, in order

vars == <<pc, args, prURL, cfg, err, prDiff, finalConsideration,
          cmdOut, respBody, body, openAIResp, stdout, ops, raised, stages>>

----------------------------------------------------------------------------
(* Bounds *)

MaxURLLen == 7
MaxChoices == 2

----------------------------------------------------------------------------
(* Text *)

Sep == "/"
Chars == {Sep, "a", "b"}
Nil == <<>>

Strs(n) == UNION {[1..k -> Chars] : k \in 0..n}

ExampleURL ==
    <<"https:", Sep, Sep, "github.com", Sep, "orgX", Sep, "repoY", Sep,
      "pull", Sep, "123">>

URLs == Strs(MaxURLLen) \cup {ExampleURL, ExampleURL \o <<Sep, "files">>}

IsPrefix(p, s) == Len(p) <= Len(s) /\ SubSeq(s, 1, Len(p)) = p
IsSuffix(p, s) ==
    Len(p) <= Len(s) /\ SubSeq(s, Len(s) - Len(p) + 1, Len(s)) = p

\* strings.Split(s, "/")
RECURSIVE SplitAcc(_, _, _)
SplitAcc(s, cur, acc) ==
    IF s = <<>> THEN Append(acc, cur)
    ELSE IF Head(s) = Sep THEN SplitAcc(Tail(s), <<>>, Append(acc, cur))
    ELSE SplitAcc(Tail(s), Append(cur, Head(s)), acc)

Split(s) == SplitAcc(s, <<>>, <<>>)

\* fmt.Println(a, b): operands separated by a space (the newline is implicit
\* in stdout being a sequence of lines)
Println2(a, b) == a \o <<" ">> \o b

----------------------------------------------------------------------------
(* Constants of the program *)

openAICompletionURL == <<"https://api.openai.com/v1/chat/completions">>
openAIModel == <<"gpt-3.5-turbo-1106">>
CONFIG_FOLDER == <<"/.config/openai/">>
FILENAME == <<"config.toml">>

UsageLine == <<"Usage: pr_review_cli -pr <PR_URL>">>
Instruction ==
    <<"\nPlease provide a final consideration for this PR in Markdown format, focusing only on potential issues and ensuring the application's stability. Include an 'Approved: true/false' statement at the end for easy decision-making.Thank you!">>

ZeroConfig == [ApiKey |-> [Key |-> <<>>], Prompt |-> [Custom |-> <<>>]]

----------------------------------------------------------------------------
(* What the outside world can answer *)

HomeDirs == {<<"/home/u">>}
Keys == {<<>>, <<"sk-1">>}
Customs == {<<>>, <<"be strict">>}
Diffs == {<<>>, <<"diff --git a b">>, <<"diff --git a b", "\n">>}
GhErrors == {<<"exit status 1">>, <<"exec: gh: executable file not found">>}
NetErrors == {<<"dial tcp: connection refused">>}
ReadErrors == {<<"unexpected EOF">>}
Contents == {<<>>, <<"LGTM\nApproved: true">>, <<"needs work">>}
ChoiceLists == UNION {[1..k -> Contents] : k \in 0..MaxChoices}

\* A response body: not JSON at all ("malformed"), JSON whose fields have the
\* wrong types ("mistyped": Unmarshal fills what it can and reports an error),
\* an API error payload without choices ("error"), or a completion.
Bodies ==
    {[kind |-> "malformed", choices |-> <<>>], [kind |-> "error", choices |-> <<>>]}
    \cup {[kind |-> k, choices |-> cs] :
            k \in {"completion", "mistyped"}, cs \in ChoiceLists}

NoBody == [kind |-> "none", choices |-> <<>>]
ZeroResp == [Choices |-> <<>>]

Raise(kind, msg) == raised \cup {[kind |-> kind, msg |-> msg]}

----------------------------------------------------------------------------
(* func loadConfig *)

ConfigPath(home) == home \o CONFIG_FOLDER \o FILENAME

\* outcome: which call fails, if any.  `decoded` is what the TOML decoder had
\* stored through &result when it returned: loadConfig returns result as it
\* stands on every path, so a parse failure hands back whatever was decoded
\* before the failure.
loadConfig(outcome, home, decoded) ==
    LET current == [op |-> "user.Current", arg |-> <<>>]
        open    == [op |-> "os.Open", arg |-> ConfigPath(home)]
        decode  == [op |-> "toml.Decode", arg |-> ConfigPath(home)]
        close   == [op |-> "file.Close", arg |-> ConfigPath(home)]
    IN  CASE outcome = "userErr" ->
               [result |-> ZeroConfig,
                err |-> <<"Error getting current user">>,
                ops |-> <<current>>]
          [] outcome = "openErr" ->
               [result |-> ZeroConfig,
                err |-> <<"Error opening TOML file: ", "no such file or directory">>,
                ops |-> <<current, open>>]
          [] outcome = "decodeErr" ->
               [result |-> decoded,
                err |-> <<"Error parsing TOML file: ", "toml: invalid">>,
                ops |-> <<current, open, decode, close>>]
          [] OTHER ->
               [result |-> decoded,
                err |-> Nil,
                ops |-> <<current, open, decode, close>>]

----------------------------------------------------------------------------
(* func getPRDiff *)

MinParts == 7

ValidateURL(parts) ==
    IF Len(parts) < MinParts THEN <<"invalid PR URL">> ELSE Nil

\* Mutant: the PR number is taken one segment early (parts[5], "pull").
GhArgv_WrongIndex(parts) ==
    <<<<"gh">>, <<"pr">>, <<"diff">>, <<"-R">>,
      parts[4] \o <<Sep>> \o parts[5], parts[6]>>

\* parts[3], parts[4], parts[6] of the source are parts[4], parts[5], parts[7]
\* here: TLA+ sequences start at 1.
GhArgv(parts) ==
    LET org      == parts[4]
        repo     == parts[5]
        prNumber == parts[7]
    IN  <<<<"gh">>, <<"pr">>, <<"diff">>, <<"-R">>, org \o <<Sep>> \o repo, prNumber>>

\* Mutant: cmd.Output()'s error is dropped (output, _ := cmd.Output()).
GhResult_IgnoreErr(output, e) == [diff |-> output, err |-> Nil]

GhResult(output, e) ==
    IF e # Nil
    THEN [diff |-> <<>>, err |-> <<"error running gh pr diff: ">> \o e]
    ELSE [diff |-> output, err |-> Nil]

----------------------------------------------------------------------------
(* func generateFinalConsideration *)

Prompt(diff) == diff \o Instruction

\* json.Marshal(OpenAIRequest{...}): the JSON object, and a nil error (a
\* struct of strings and a float always marshals).
Marshal(diff) ==
    [err |-> Nil,
     body |-> [model |-> openAIModel,
               messages |-> <<[role |-> <<"user">>, content |-> Prompt(diff)]>>,
               temperature |-> <<"0.5">>]]

\* http.NewRequest + the two Header.Set calls
NewRequest(reqBody, apiKey) ==
    [method |-> <<"POST">>,
     url |-> openAICompletionURL,
     contentType |-> <<"application/json">>,
     authorization |-> <<"Bearer ">> \o apiKey,
     body |-> reqBody]

\* json.Unmarshal(body, &openAIResp)
Unmarshal(b) ==
    LET filled == [Choices |->
                     [i \in 1..Len(b.choices) |->
                        [Message |-> [Content |-> b.choices[i]]]]]
    IN  CASE b.kind = "malformed" ->
               [err |-> <<"invalid character '<' looking for beginning of value">>,
                resp |-> ZeroResp]
          [] b.kind = "mistyped" ->
               [err |-> <<"json: cannot unmarshal string into Go struct field">>,
                resp |-> filled]
          [] OTHER -> [err |-> Nil, resp |-> filled]

\* Mutant: the last choice is returned instead of the first.
FirstChoice_Last(resp) == resp.Choices[Len(resp.Choices)].Message.Content

FirstChoice(resp) == resp.Choices[1].Message.Content

\* Mutant: the wrong field of the configuration is passed as the key.
ApiKeyArg_Custom(c) == c.Prompt.Custom

ApiKeyArg(c) == c.ApiKey.Key

----------------------------------------------------------------------------
(* func main *)

Terminal == {"UsageExit", "ErrorExit", "Done"}

Init ==
    /\ pc = "Start"
    /\ args \in {<<>>} \cup {<<"-pr", u>> : u \in URLs}
    /\ prURL = <<>>
    /\ cfg = ZeroConfig
    /\ err = Nil
    /\ prDiff = <<>>
    /\ finalConsideration = <<>>
    /\ cmdOut = [output |-> <<>>, err |-> Nil]
    /\ respBody = NoBody
    /\ body = NoBody
    /\ openAIResp = ZeroResp
    /\ stdout = <<>>
    /\ ops = <<>>
    /\ raised = {}
    /\ stages = <<"Start">>

\* flag.StringVar(&prURL, "pr", "", ...); flag.Parse()
ParseFlags ==
    /\ pc = "Start"
    /\ prURL' = IF Len(args) = 2 /\ args[1] = "-pr" THEN args[2] ELSE <<>>
    /\ pc' = "LoadConfig"
    /\ stages' = Append(stages, "ParseArgs")
    /\ UNCHANGED <<args, cfg, err, prDiff, finalConsideration, cmdOut,
                   respBody, body, openAIResp, stdout, ops, raised>>

\* cfg, err := loadConfig()   -- err is not looked at
LoadConfig ==
    /\ pc = "LoadConfig"
    /\ \E outcome \in {"userErr", "openErr", "decodeErr", "ok"},
          home \in HomeDirs, key \in Keys, custom \in Customs :
         LET r == loadConfig(outcome, home,
                             [ApiKey |-> [Key |-> key],
                              Prompt |-> [Custom |-> custom]])
         IN  /\ cfg' = r.result
             /\ err' = r.err
             /\ ops' = ops \o r.ops
             /\ raised' = IF r.err # Nil THEN Raise("ConfigError", r.err)
                          ELSE raised
    /\ pc' = "CheckURL"
    /\ UNCHANGED <<args, prURL, prDiff, finalConsideration, cmdOut,
                   respBody, body, openAIResp, stdout, stages>>

\* Mutant: the usage line is printed but main does not return.
MainUsageCheck_NoReturn ==
    /\ stdout' = IF prURL = <<>> THEN Append(stdout, UsageLine) ELSE stdout
    /\ pc' = "FetchDiff"
    /\ stages' = Append(stages, "FetchDiff")

\* Mutant: prURL is not checked at all.
MainUsageCheck_NoCheck ==
    /\ stdout' = stdout
    /\ pc' = "FetchDiff"
    /\ stages' = Append(stages, "FetchDiff")

\* if prURL == "" { fmt.Println("Usage: ..."); return }
MainUsageCheck ==
    IF prURL = <<>>
    THEN /\ stdout' = Append(stdout, UsageLine)
         /\ pc' = "UsageExit"
         /\ stages' = stages
    ELSE /\ stdout' = stdout
         /\ pc' = "FetchDiff"
         /\ stages' = Append(stages, "FetchDiff")

CheckURL ==
    /\ pc = "CheckURL"
    /\ MainUsageCheck
    /\ UNCHANGED <<args, prURL, cfg, err, prDiff, finalConsideration, cmdOut,
                   respBody, body, openAIResp, ops, raised>>

\* Mutant: the error is printed but main does not return.
MainAfterGetPRDiff_NoReturn(diff, e) ==
    /\ prDiff' = diff
    /\ err' = e
    /\ stdout' = IF e # Nil
                 THEN Append(stdout, Println2(<<"Error fetching PR diff:">>, e))
                 ELSE stdout
    /\ pc' = "GenerateReview"
    /\ stages' = Append(stages, "GenerateReview")

\* prDiff, err := getPRDiff(prURL); if err != nil { Println; return }
MainAfterGetPRDiff(diff, e) ==
    /\ prDiff' = diff
    /\ err' = e
    /\ IF e # Nil
       THEN /\ stdout' = Append(stdout, Println2(<<"Error fetching PR diff:">>, e))
            /\ pc' = "ErrorExit"
            /\ stages' = stages
       ELSE /\ stdout' = stdout
            /\ pc' = "GenerateReview"
            /\ stages' = Append(stages, "GenerateReview")

\* getPRDiff up to cmd.Output(): split, validate, start `gh pr diff`
GetPRDiff ==
    /\ pc = "FetchDiff"
    /\ LET parts == Split(prURL)
           e == ValidateURL(parts)
       IN  IF e # Nil
           THEN /\ MainAfterGetPRDiff(<<>>, e)
                /\ raised' = Raise("InvalidURLError", e)
                /\ ops' = ops
           ELSE /\ ops' = Append(ops, [op |-> "exec", arg |-> GhArgv(parts)])
                /\ pc' = "WaitGh"
                /\ UNCHANGED <<prDiff, err, stdout, stages, raised>>
    /\ UNCHANGED <<args, prURL, cfg, finalConsideration, cmdOut, respBody, body,
                   openAIResp>>

\* cmd.Output() returns: the process could not be started or exited non-zero
\* (e # Nil), or its standard output
GhReturns ==
    /\ pc = "WaitGh"
    /\ \E output \in Diffs, e \in GhErrors \cup {Nil} :
         LET r == GhResult(output, e)
         IN  /\ cmdOut' = [output |-> IF e = Nil THEN output ELSE <<>>, err |-> e]
             /\ MainAfterGetPRDiff(r.diff, r.err)
             /\ raised' = IF r.err # Nil THEN Raise("DiffFetchError", r.err)
                          ELSE raised
    /\ UNCHANGED <<args, prURL, cfg, finalConsideration, respBody, body,
                   openAIResp, ops>>

\* Mutant: the error is printed but main does not return.
MainAfterGenerate_NoReturn(text, e) ==
    /\ finalConsideration' = text
    /\ err' = e
    /\ stdout' = IF e # Nil
                 THEN Append(stdout,
                        Println2(<<"Error generating final consideration:">>, e))
                 ELSE stdout
    /\ pc' = "Print"
    /\ stages' = Append(stages, "Print")

\* finalConsideration, err := generateFinalConsideration(...);
\* if err != nil { Println; return }
MainAfterGenerate(text, e) ==
    /\ finalConsideration' = text
    /\ err' = e
    /\ IF e # Nil
       THEN /\ stdout' = Append(stdout,
                           Println2(<<"Error generating final consideration:">>, e))
            /\ pc' = "ErrorExit"
            /\ stages' = stages
       ELSE /\ stdout' = stdout
            /\ pc' = "Print"
            /\ stages' = Append(stages, "Print")

\* generateFinalConsideration up to client.Do(req)
GenerateRequest ==
    /\ pc = "GenerateReview"
    /\ LET m == Marshal(prDiff)
       IN  IF m.err # Nil
           THEN /\ MainAfterGenerate(<<>>,
                      <<"error marshaling OpenAI request: ">> \o m.err)
                /\ raised' = Raise("SerializationError",
                      <<"error marshaling OpenAI request: ">> \o m.err)
                /\ ops' = ops
           ELSE /\ ops' = Append(ops, [op |-> "http",
                                       arg |-> NewRequest(m.body, ApiKeyArg(cfg))])
                /\ pc' = "WaitHTTP"
                /\ UNCHANGED <<finalConsideration, err, stdout, stages, raised>>
    /\ UNCHANGED <<args, prURL, cfg, prDiff, cmdOut, respBody, body, openAIResp>>

\* client.Do(req) returns: a transport error or a response (any status)
HTTPReturns ==
    /\ pc = "WaitHTTP"
    /\ \/ \E e \in NetErrors :
            LET msg == <<"error making request to OpenAI API: ">> \o e
            IN  /\ MainAfterGenerate(<<>>, msg)
                /\ raised' = Raise("RequestError", msg)
                /\ respBody' = respBody
       \/ \E b \in Bodies :
            /\ respBody' = b
            /\ pc' = "ReadBody"
            /\ UNCHANGED <<finalConsideration, err, stdout, stages, raised>>
    /\ UNCHANGED <<args, prURL, cfg, prDiff, cmdOut, body, openAIResp, ops>>

\* io.ReadAll(resp.Body)
ReadBody ==
    /\ pc = "ReadBody"
    /\ \/ \E e \in ReadErrors :
            LET msg == <<"error reading response from OpenAI API: ">> \o e
            IN  /\ MainAfterGenerate(<<>>, msg)
                /\ raised' = Raise("ResponseReadError", msg)
                /\ body' = body
       \/ /\ body' = respBody
          /\ pc' = "Unmarshal"
          /\ UNCHANGED <<finalConsideration, err, stdout, stages, raised>>
    /\ UNCHANGED <<args, prURL, cfg, prDiff, cmdOut, respBody, openAIResp, ops>>

\* json.Unmarshal, the empty-choices check and the return of Choices[0]
UnmarshalAndReturn ==
    /\ pc = "Unmarshal"
    /\ LET u == Unmarshal(body)
       IN  /\ openAIResp' = u.resp
           /\ IF u.err # Nil
              THEN LET msg == <<"error unmarshaling OpenAI response: ">> \o u.err
                   IN  /\ MainAfterGenerate(<<>>, msg)
                       /\ raised' = Raise("DeserializationError", msg)
              ELSE IF Len(u.resp.Choices) = 0
              THEN LET msg == <<"no response received from OpenAI API">>
                   IN  /\ MainAfterGenerate(<<>>, msg)
                       /\ raised' = Raise("EmptyResponseError", msg)
              ELSE /\ MainAfterGenerate(FirstChoice(u.resp), Nil)
                   /\ raised' = raised
    /\ UNCHANGED <<args, prURL, cfg, prDiff, cmdOut, respBody, body, ops>>

\* fmt.Println(finalConsideration)
PrintReview ==
    /\ pc = "Print"
    /\ stdout' = Append(stdout, finalConsideration)
    /\ pc' = "Done"
    /\ UNCHANGED <<args, prURL, cfg, err, prDiff, finalConsideration, cmdOut,
                   respBody, body, openAIResp, ops, raised, stages>>

Next ==
    \/ ParseFlags
    \/ LoadConfig
    \/ CheckURL
    \/ GetPRDiff
    \/ GhReturns
    \/ GenerateRequest
    \/ HTTPReturns
    \/ ReadBody
    \/ UnmarshalAndReturn
    \/ PrintReview

Spec == Init /\ [][Next]_vars

\* main is one thread and every call it blocks on returns
FairSpec == Spec /\ WF_vars(Next)

----------------------------------------------------------------------------
(* Properties *)

ExecOps == SelectSeq(ops, LAMBDA o : o.op = "exec")
HttpOps == SelectSeq(ops, LAMBDA o : o.op = "http")
ConfigOpNames == {"user.Current", "os.Open", "toml.Decode", "file.Close"}
Did(name) == \E i \in DOMAIN ops : ops[i].op = name

Called(stage) == \E i \in DOMAIN stages : stages[i] = stage
GetPRDiffReturned == Called("FetchDiff") /\ pc \notin {"FetchDiff", "WaitGh"}

\* the -pr flag is absent, or present with the empty string
NoURL == args = <<>> \/ (Len(args) = 2 /\ args[2] = <<>>)

ConfigFailed == \E r \in raised : r.kind = "ConfigError"

\* json.Unmarshal has run on the body and reported no error
Deserialized ==
    /\ pc \in {"Print", "Done", "ErrorExit"}
    /\ body.kind \in {"error", "completion"}

\* C1: a URL with fewer than 7 "/"-separated segments makes getPRDiff fail
\* with "invalid PR URL"; in such a run no process is started and no HTTP
\* request is sent.
C1_ShortURLRejected ==
    Len(Split(prURL)) < 7 =>
        /\ ExecOps = <<>>
        /\ HttpOps = <<>>
        /\ (Called("FetchDiff") /\ pc # "FetchDiff") =>
               /\ pc = "ErrorExit"
               /\ err = <<"invalid PR URL">>
               /\ prDiff = <<>>
               /\ stdout = << <<"Error fetching PR diff:", " ", "invalid PR URL">> >>

C1_Witness ==
    /\ pc = "ErrorExit"
    /\ Len(Split(prURL)) = 6
    /\ err = <<"invalid PR URL">>

\* C2: for a URL with at least 7 segments gh is run exactly once, as
\* gh pr diff -R <segment 3>/<segment 4> <segment 6> (segments counted from
\* 0); the example URL targets orgX/repoY and 123.
C2_GhInvocation ==
    /\ Len(ExecOps) <= 1
    /\ (Len(Split(prURL)) >= 7 /\ Called("FetchDiff") /\ pc # "FetchDiff") =>
           Len(ExecOps) = 1
    /\ \A i \in DOMAIN ExecOps :
           ExecOps[i].arg =
               <<<<"gh">>, <<"pr">>, <<"diff">>, <<"-R">>,
                 Split(prURL)[4] \o <<"/">> \o Split(prURL)[5],
                 Split(prURL)[7]>>
    /\ (prURL = ExampleURL /\ ExecOps # <<>>) =>
           /\ ExecOps[1].arg[5] = <<"orgX", "/", "repoY">>
           /\ ExecOps[1].arg[6] = <<"123">>

C2_Witness == pc = "WaitGh" /\ prURL = ExampleURL /\ Len(ExecOps) = 1

\* C3: when gh cannot be started or exits non-zero, getPRDiff returns the
\* wrapped error, main prints "Error fetching PR diff: ..." and stops; the
\* generator is never entered and no HTTP request is sent.
C3_GhFailureStopsRun ==
    cmdOut.err # Nil =>
        /\ pc = "ErrorExit"
        /\ err = <<"error running gh pr diff: ">> \o cmdOut.err
        /\ stdout = << <<"Error fetching PR diff:", " ",
                         "error running gh pr diff: ">> \o cmdOut.err >>
        /\ HttpOps = <<>>
        /\ ~Called("GenerateReview")

C3_Witness ==
    /\ pc = "ErrorExit"
    /\ cmdOut.err = <<"exit status 1">>
    /\ Len(ExecOps) = 1

\* C4: when the response deserializes with at least one choice, the generator
\* succeeds and what is printed is the content of the first choice, whatever
\* the other choices hold.
C4_FirstChoicePrinted ==
    (Deserialized /\ Len(openAIResp.Choices) >= 1) =>
        /\ pc \in {"Print", "Done"}
        /\ err = Nil
        /\ finalConsideration = body.choices[1]
        /\ finalConsideration = openAIResp.Choices[1].Message.Content
        /\ pc = "Print" => stdout = <<>>
        /\ pc = "Done" => stdout = <<body.choices[1]>>

C4_Witness ==
    /\ pc = "Done"
    /\ body.choices = <<<<"LGTM\nApproved: true">>, <<"needs work">>>>
    /\ stdout = << <<"LGTM\nApproved: true">> >>

\* C5: when the response deserializes with no choices (an API error payload
\* included), the generator fails with "no response received from OpenAI
\* API" and the only output is the "Error generating final consideration:"
\* line.
C5_EmptyChoicesIsError ==
    (Deserialized /\ Len(openAIResp.Choices) = 0) =>
        /\ pc = "ErrorExit"
        /\ err = <<"no response received from OpenAI API">>
        /\ finalConsideration = <<>>
        /\ stdout = << <<"Error generating final consideration:", " ",
                         "no response received from OpenAI API">> >>

C5_Witness ==
    /\ pc = "ErrorExit"
    /\ body.kind = "error"
    /\ err = <<"no response received from OpenAI API">>

\* C6: without a -pr value the only output is the usage line, and no process
\* is started and no HTTP request is sent.
C6_UsageOnly ==
    NoURL =>
        /\ ExecOps = <<>>
        /\ HttpOps = <<>>
        /\ stdout \in {<<>>, << <<"Usage: pr_review_cli -pr <PR_URL>">> >>}
        /\ pc \in Terminal =>
               /\ pc = "UsageExit"
               /\ stdout = << <<"Usage: pr_review_cli -pr <PR_URL>">> >>

C6_Witness == pc = "UsageExit" /\ args = <<>> /\ Len(stdout) = 1

\* C7 as stated: without a -pr value the run prints the usage line and does
\* nothing else at all, the configuration file included.
C7_NoWorkAtAll ==
    NoURL =>
        /\ ops = <<>>
        /\ pc \in Terminal =>
               /\ pc = "UsageExit"
               /\ stdout = << <<"Usage: pr_review_cli -pr <PR_URL>">> >>
               /\ stages = <<"Start", "ParseArgs">>

\* C7, amended: without a -pr value the run prints the usage line and enters
\* no stage after argument parsing; the one thing it does besides is the
\* single loadConfig call made before prURL is looked at.
C7_OnlyConfigLoad ==
    NoURL =>
        /\ \A i \in DOMAIN ops : ops[i].op \in ConfigOpNames
        /\ Len(SelectSeq(ops, LAMBDA o : o.op = "user.Current")) <= 1
        /\ pc \in Terminal =>
               /\ pc = "UsageExit"
               /\ stdout = << <<"Usage: pr_review_cli -pr <PR_URL>">> >>
               /\ stages = <<"Start", "ParseArgs">>
               /\ Len(SelectSeq(ops, LAMBDA o : o.op = "user.Current")) = 1
               /\ prDiff = <<>> /\ finalConsideration = <<>>

C7_Witness ==
    /\ pc = "UsageExit"
    /\ Len(args) = 2
    /\ Did("os.Open") /\ Did("toml.Decode")

\* C8: every error that occurred in a run has been reported on standard
\* output by the time the run ends, and the run ended in the error exit.
C8_EveryErrorSurfaced ==
    pc \in Terminal =>
        \A r \in raised :
            /\ pc = "ErrorExit"
            /\ \E i \in DOMAIN stdout : IsSuffix(r.msg, stdout[i])

\* the fetcher is entered, and on its success the generator, which sends
\* one request
C9_PipelineRuns ==
    /\ pc # "UsageExit"
    /\ pc # "CheckURL" => Called("FetchDiff")
    /\ (GetPRDiffReturned /\ cmdOut.err = Nil /\ Len(Split(prURL)) >= 7) =>
           /\ Called("GenerateReview")
           /\ pc # "GenerateReview" => Len(HttpOps) = 1

\* C9 as stated: after a failed loadConfig and with a URL given, the fetcher
\* and then the generator still run, and the request carries
\* "Authorization: Bearer " with an empty key.
C9_ZeroKeyAfterConfigFailure ==
    (ConfigFailed /\ ~NoURL) =>
        /\ C9_PipelineRuns
        /\ \A i \in DOMAIN HttpOps : HttpOps[i].arg.authorization = <<"Bearer ">>

\* C9, amended: after a failed loadConfig and with a URL given, the fetcher
\* and then the generator still run; the request carries the key of the
\* configuration loadConfig returned, which is empty when the home directory
\* or the file could not be opened and is whatever the decoder had stored
\* when parsing failed.
C9_ReturnedKeyAfterConfigFailure ==
    (ConfigFailed /\ ~NoURL) =>
        /\ C9_PipelineRuns
        /\ \A i \in DOMAIN HttpOps :
               HttpOps[i].arg.authorization = <<"Bearer ">> \o cfg.ApiKey.Key
        /\ ~Did("toml.Decode") => cfg.ApiKey.Key = <<>>

C9_Witness ==
    /\ ConfigFailed
    /\ ~Did("toml.Decode")
    /\ Len(HttpOps) = 1
    /\ HttpOps[1].arg.authorization = <<"Bearer ">>

StageOrder == <<"Start", "ParseArgs", "FetchDiff", "GenerateReview", "Print">>

\* C10: the stages are entered in order, each at most once; a failure in any
\* stage (the configuration load of the argument stage included) leads
\* directly to the error exit; and every run ends.
C10_StagesAbortOnFailure ==
    /\ [](IsPrefix(stages, StageOrder))
    /\ [][raised' # raised => pc' = "ErrorExit"]_vars
    /\ <>(pc \in Terminal)

====
